---------------------------- MODULE Spec2Model ----------------------------
(***************************************************************************)
(* Model of main.py: a FastAPI calculator over two floats.                 *)
(*                                                                         *)
(* Floats are modelled by a small binary floating-point format with the    *)
(* structure of IEEE-754 doubles: a sign, a magnitude counted in quanta    *)
(* (the smallest subnormal), PrecBits bits of mantissa, exponents          *)
(* 0..MaxExp, round-to-nearest-even, overflow to infinity, signed zeros,   *)
(* infinities and NaN.  1.0 is Pow2(UnitExp) quanta.                       *)
(***************************************************************************)
EXTENDS Integers, FiniteSets, Sequences

\* ------------------------------------------------------------------ state
VARIABLES
    phase,       \* "idle", "received" (a request is bound) or "done"
    req,         \* the request in flight
    resp,        \* the response to it
    call,        \* the arguments compute was called with for it, or <<>>
    arith,       \* the arithmetic compute executed for it, or <<>>
    prevStatus,  \* the status of the response before this request (0: none)
    probe,       \* a request chosen to be compared over the history
    probeResp    \* the first response given to the probe request

vars == <<phase, req, resp, call, arith, prevStatus, probe, probeResp>>

\* ------------------------------------------------------------------ bounds
PrecBits == 2
MaxExp == 2
UnitExp == 1

\* ------------------------------------------------------------------ floats
RECURSIVE Pow2(_)
Pow2(n) == IF n = 0 THEN 1 ELSE 2 * Pow2(n - 1)

Unit == Pow2(UnitExp)

\* magnitudes of the finite floats, in quanta
Rep == { k * Pow2(e) : k \in 0..(Pow2(PrecBits) - 1), e \in 0..MaxExp }

MaxMag == (Pow2(PrecBits) - 1) * Pow2(MaxExp)

\* the first magnitude past the largest finite one: rounding to it overflows
Top == Pow2(PrecBits) * Pow2(MaxExp)

Fin(s, m) == [k |-> "fin", s |-> s, m |-> m]
Inf(s) == [k |-> "inf", s |-> s, m |-> 0]
NaN == [k |-> "nan", s |-> 0, m |-> 0]

Finite == { Fin(s, m) : s \in {0, 1}, m \in Rep }
Float == Finite \cup {Inf(0), Inf(1), NaN}

\* math.isfinite(v)
isfinite(v) == v.k = "fin"

\* Python's  b == 0  on a float: true of 0.0 and of -0.0, false of NaN
IsZero(v) == v.k = "fin" /\ v.m = 0

SetMax(S) == CHOOSE x \in S : \A y \in S : y <= x
SetMin(S) == CHOOSE x \in S : \A y \in S : x <= y

RECURSIVE Mant(_)
Mant(r) == IF r < Pow2(PrecBits) THEN r ELSE Mant(r \div 2)

\* the magnitude nearest to n/d (n >= 0, d > 0), ties to the even mantissa;
\* Top stands for overflow
RoundMag(n, d) ==
    IF n >= Top * d THEN Top
    ELSE LET lo == SetMax({ r \in Rep : r * d <= n })
             hi == SetMin({ r \in Rep \cup {Top} : r * d >= n })
         IN  IF lo = hi THEN lo
             ELSE IF 2 * n < (lo + hi) * d THEN lo
             ELSE IF 2 * n > (lo + hi) * d THEN hi
             ELSE IF Mant(lo) % 2 = 0 THEN lo ELSE hi

\* the float of sign s nearest to n/d
Rounded(s, n, d) ==
    LET m == RoundMag(n, d) IN IF m = Top THEN Inf(s) ELSE Fin(s, m)

Xor(s, t) == IF s = t THEN 0 ELSE 1

Neg(x) == IF x.k = "nan" THEN NaN ELSE [x EXCEPT !.s = 1 - x.s]

Signed(x) == IF x.s = 1 THEN 0 - x.m ELSE x.m

\* a + b on floats
FAdd(x, y) ==
    IF x.k = "nan" \/ y.k = "nan" THEN NaN
    ELSE IF x.k = "inf" /\ y.k = "inf" THEN (IF x.s = y.s THEN x ELSE NaN)
    ELSE IF x.k = "inf" THEN x
    ELSE IF y.k = "inf" THEN y
    ELSE LET v == Signed(x) + Signed(y)
         IN  IF v = 0 THEN Fin(IF x.s = 1 /\ y.s = 1 THEN 1 ELSE 0, 0)
             ELSE IF v < 0 THEN Rounded(1, 0 - v, 1)
             ELSE Rounded(0, v, 1)

\* a - b on floats
FSub(x, y) == FAdd(x, Neg(y))

\* a * b on floats
FMul(x, y) ==
    IF x.k = "nan" \/ y.k = "nan" THEN NaN
    ELSE IF (x.k = "inf" /\ IsZero(y)) \/ (IsZero(x) /\ y.k = "inf") THEN NaN
    ELSE IF x.k = "inf" \/ y.k = "inf" THEN Inf(Xor(x.s, y.s))
    ELSE Rounded(Xor(x.s, y.s), x.m * y.m, Unit)

\* a / b on floats, for b that is not zero (Python raises ZeroDivisionError
\* on a zero divisor: see TrueDiv)
FDiv(x, y) ==
    IF x.k = "nan" \/ y.k = "nan" THEN NaN
    ELSE IF x.k = "inf" /\ y.k = "inf" THEN NaN
    ELSE IF x.k = "inf" THEN Inf(Xor(x.s, y.s))
    ELSE IF y.k = "inf" THEN Fin(Xor(x.s, y.s), 0)
    ELSE Rounded(Xor(x.s, y.s), x.m * Unit, y.m)

\* a call that returned v after executing the arithmetic fn on x and y
Returned(v, fn, x, y) ==
    [raised |-> FALSE, value |-> v, exc |-> "", status |-> 0, detail |-> "",
     arith |-> <<fn, x, y>>]

\* a call that raised exc, which the framework answers with status and detail
Raised(exc, status, detail, ar) ==
    [raised |-> TRUE, value |-> NaN, exc |-> exc, status |-> status,
     detail |-> detail, arith |-> ar]

\* Python's  a / b : ZeroDivisionError (an unhandled exception, status 500)
\* on a zero divisor
TrueDiv(x, y) ==
    IF IsZero(y) THEN Raised("ZeroDivisionError", 500, "internal", <<"div", x, y>>)
    ELSE Returned(FDiv(x, y), "div", x, y)

\* ------------------------------------------------------------- data model
\* class Op(str, Enum)
Op == {"add", "sub", "mul", "div"}

\* operator strings a client can send: the enumeration's values and others
OpStrings == Op \cup {"mod", "ADD"}

\* the error messages (the source's texts, abbreviated)
MsgFinite == "finite_only"
MsgDivZero == "div_by_zero"
MsgUnsupported == "unsupported_operator"
\* the framework's message for a value outside an enumeration
MsgEnum == "enum"

\* mutant: the validator tests only  v != v  and lets the infinities through
must_be_finite_nan_only(v) == IF v.k = "nan" THEN {MsgFinite} ELSE {}

\* Numbers.must_be_finite: the errors validating one field raises
must_be_finite(v) == IF ~isfinite(v) THEN {MsgFinite} ELSE {}

\* Numbers(a=..., b=...): the validation errors of the body
Numbers(a, b) == must_be_finite(a) \cup must_be_finite(b)

\* mutant: an operator outside the enumeration defaults to add
OpParam_default(raw) ==
    [errors |-> {}, value |-> IF raw \in Op THEN raw ELSE "add"]

\* a parameter annotated  op: Op : the validation errors of the raw string
\* and the value handed to the handler
OpParam(raw) ==
    [errors |-> IF raw \in Op THEN {} ELSE {MsgEnum}, value |-> raw]

\* OperationResponse(a=, b=, operator=, result=) returned with status 200
OperationResponse(a, b, operator, result) ==
    [status |-> 200, errors |-> {}, body |-> <<a, b, operator, result>>]

\* the response to an exception that left the handler
ErrorResponse(status, errors) ==
    [status |-> status, errors |-> errors, body |-> <<>>]

\* --------------------------------------------------------- business logic
\* mutant: sub adds
compute_sub_adds(a, b, op) ==
    IF op = "add" THEN Returned(FAdd(a, b), "add", a, b)
    ELSE IF op = "sub" THEN Returned(FAdd(a, b), "add", a, b)
    ELSE IF op = "mul" THEN Returned(FMul(a, b), "mul", a, b)
    ELSE IF op = "div" THEN
        IF IsZero(b) THEN Raised("HTTPException", 400, MsgDivZero, <<>>)
        ELSE TrueDiv(a, b)
    ELSE Raised("HTTPException", 400, MsgUnsupported, <<>>)

\* mutant: the  b == 0  test is missing
compute_no_zero_test(a, b, op) ==
    IF op = "add" THEN Returned(FAdd(a, b), "add", a, b)
    ELSE IF op = "sub" THEN Returned(FSub(a, b), "sub", a, b)
    ELSE IF op = "mul" THEN Returned(FMul(a, b), "mul", a, b)
    ELSE IF op = "div" THEN TrueDiv(a, b)
    ELSE Raised("HTTPException", 400, MsgUnsupported, <<>>)

\* mutant: mul squares its first operand
compute_mul_squares(a, b, op) ==
    IF op = "add" THEN Returned(FAdd(a, b), "add", a, b)
    ELSE IF op = "sub" THEN Returned(FSub(a, b), "sub", a, b)
    ELSE IF op = "mul" THEN Returned(FMul(a, a), "mul", a, a)
    ELSE IF op = "div" THEN
        IF IsZero(b) THEN Raised("HTTPException", 400, MsgDivZero, <<>>)
        ELSE TrueDiv(a, b)
    ELSE Raised("HTTPException", 400, MsgUnsupported, <<>>)

\* mutant: a zero divisor is reported with the message of a non-finite operand
compute_one_message(a, b, op) ==
    IF op = "add" THEN Returned(FAdd(a, b), "add", a, b)
    ELSE IF op = "sub" THEN Returned(FSub(a, b), "sub", a, b)
    ELSE IF op = "mul" THEN Returned(FMul(a, b), "mul", a, b)
    ELSE IF op = "div" THEN
        IF IsZero(b) THEN Raised("HTTPException", 400, MsgFinite, <<>>)
        ELSE TrueDiv(a, b)
    ELSE Raised("HTTPException", 400, MsgUnsupported, <<>>)

\* mutant: a module-level flag set by a failed request makes compute refuse
compute_sticky(a, b, op) ==
    IF prevStatus >= 400 THEN Raised("HTTPException", 400, MsgUnsupported, <<>>)
    ELSE IF op = "add" THEN Returned(FAdd(a, b), "add", a, b)
    ELSE IF op = "sub" THEN Returned(FSub(a, b), "sub", a, b)
    ELSE IF op = "mul" THEN Returned(FMul(a, b), "mul", a, b)
    ELSE IF op = "div" THEN
        IF IsZero(b) THEN Raised("HTTPException", 400, MsgDivZero, <<>>)
        ELSE TrueDiv(a, b)
    ELSE Raised("HTTPException", 400, MsgUnsupported, <<>>)

\* def compute(a, b, op)
compute(a, b, op) ==
    IF op = "add" THEN Returned(FAdd(a, b), "add", a, b)
    ELSE IF op = "sub" THEN Returned(FSub(a, b), "sub", a, b)
    ELSE IF op = "mul" THEN Returned(FMul(a, b), "mul", a, b)
    ELSE IF op = "div" THEN
        IF IsZero(b) THEN Raised("HTTPException", 400, MsgDivZero, <<>>)
        ELSE TrueDiv(a, b)
    ELSE Raised("HTTPException", 400, MsgUnsupported, <<>>)

\* what a handler that called compute(a, b, op) and built its response with
\* operator tag shown hands back: the response, the call and the arithmetic
Served(a, b, op, shown) ==
    LET c == compute(a, b, op)
    IN  [resp  |-> IF c.raised THEN ErrorResponse(c.status, {c.detail})
                   ELSE OperationResponse(a, b, shown, c.value),
         call  |-> <<a, b, op>>,
         arith |-> c.arith]

NotServed(status, errors) ==
    [resp |-> ErrorResponse(status, errors), call |-> <<>>, arith |-> <<>>]

\* mutant: the finiteness test is missing
calc_query_no_test(op, a, b) == Served(a, b, op, op)

\* mutant: the finiteness test comes after the call of compute
calc_query_late_test(op, a, b) ==
    LET h == Served(a, b, op, op)
    IN  IF h.resp.status # 200 THEN h
        ELSE IF ~isfinite(a) \/ ~isfinite(b) THEN NotServed(400, {MsgFinite})
        ELSE h

\* def calc_query(op: Op, a: float, b: float)
calc_query(op, a, b) ==
    IF ~isfinite(a) \/ ~isfinite(b) THEN NotServed(400, {MsgFinite})
    ELSE Served(a, b, op, op)

\* def calc_body(op: Op, payload: Numbers)
calc_body(op, a, b) == Served(a, b, op, op)

\* def add(payload: Numbers), sub, mul, div
add(a, b) == Served(a, b, "add", "add")
\* mutant: sub was copied from add and only its tag changed
sub_copied(a, b) == Served(a, b, "add", "sub")

sub(a, b) == Served(a, b, "sub", "sub")
mul(a, b) == Served(a, b, "mul", "mul")
div(a, b) == Served(a, b, "div", "div")

\* ----------------------------------------------------------------- routes
GetCalc == "GET /calc"
PostCalc == "POST /calc/{op}"
Shortcut(op) == "POST /" \o op

Request(route, op, a, b) == [route |-> route, op |-> op, a |-> a, b |-> b]
NoRequest == Request("none", "none", NaN, NaN)
NoResponse == [status |-> 0, errors |-> {}, body |-> <<>>]

\* the requests whose operands are drawn from S
RequestsOver(S) ==
    { Request(r, op, a, b) : r \in {GetCalc, PostCalc}, op \in OpStrings, a \in S, b \in S }
    \cup { Request(Shortcut(op), "none", a, b) : op \in Op, a \in S, b \in S }

\* the errors the framework finds binding the request to the handler's
\* parameters; the handler runs only when there are none
BindErrors(r) ==
    IF r.route = GetCalc THEN OpParam(r.op).errors
    ELSE IF r.route = PostCalc THEN OpParam(r.op).errors \cup Numbers(r.a, r.b)
    ELSE Numbers(r.a, r.b)

\* the handler of the route, applied to the bound parameters
Dispatch(r) ==
    IF r.route = GetCalc THEN calc_query(OpParam(r.op).value, r.a, r.b)
    ELSE IF r.route = PostCalc THEN calc_body(OpParam(r.op).value, r.a, r.b)
    ELSE IF r.route = Shortcut("add") THEN add(r.a, r.b)
    ELSE IF r.route = Shortcut("sub") THEN sub(r.a, r.b)
    ELSE IF r.route = Shortcut("mul") THEN mul(r.a, r.b)
    ELSE div(r.a, r.b)

\* the whole of one request: binding, then the handler
Handle(r) ==
    IF BindErrors(r) # {} THEN NotServed(422, BindErrors(r)) ELSE Dispatch(r)

\* ---------------------------------------------------------------- actions
Init ==
    /\ phase = "idle"
    /\ req = NoRequest
    /\ resp = NoResponse
    /\ call = <<>>
    /\ arith = <<>>
    /\ prevStatus = 0
    /\ probe = NoRequest
    /\ probeResp = NoResponse

\* a request arrives
Receive(S) ==
    /\ phase = "idle"
    /\ req' \in S
    /\ phase' = "received"
    /\ resp' = NoResponse
    /\ call' = <<>>
    /\ arith' = <<>>
    /\ UNCHANGED <<prevStatus, probe, probeResp>>

Finish(h) ==
    /\ phase' = "done"
    /\ resp' = h.resp
    /\ call' = h.call
    /\ arith' = h.arith
    /\ UNCHANGED <<req, prevStatus, probe, probeResp>>

\* binding fails: the framework answers 422 and no handler runs
RejectValidation ==
    /\ phase = "received"
    /\ BindErrors(req) # {}
    /\ Finish(NotServed(422, BindErrors(req)))

Bound(route) ==
    /\ phase = "received"
    /\ req.route = route
    /\ BindErrors(req) = {}

CalcQuery ==
    Bound(GetCalc) /\ Finish(calc_query(OpParam(req.op).value, req.a, req.b))
CalcBody ==
    Bound(PostCalc) /\ Finish(calc_body(OpParam(req.op).value, req.a, req.b))
AddRoute == Bound(Shortcut("add")) /\ Finish(add(req.a, req.b))
SubRoute == Bound(Shortcut("sub")) /\ Finish(sub(req.a, req.b))
MulRoute == Bound(Shortcut("mul")) /\ Finish(mul(req.a, req.b))
DivRoute == Bound(Shortcut("div")) /\ Finish(div(req.a, req.b))

\* the response is sent; nothing of the request is kept
Respond ==
    /\ phase = "done"
    /\ phase' = "idle"
    /\ prevStatus' = resp.status
    /\ probeResp' = IF req = probe /\ probeResp = NoResponse THEN resp ELSE probeResp
    /\ req' = NoRequest
    /\ resp' = NoResponse
    /\ call' = <<>>
    /\ arith' = <<>>
    /\ UNCHANGED probe

Handlers ==
    \/ RejectValidation
    \/ CalcQuery
    \/ CalcBody
    \/ AddRoute
    \/ SubRoute
    \/ MulRoute
    \/ DivRoute

Next ==
    \/ Receive(RequestsOver(Float))
    \/ Handlers
    \/ Respond

Spec == Init /\ [][Next]_vars

\* ------------------------------------------------- histories with a probe
One == Fin(0, Unit)

\* operands for the probe: NaN, an infinity, both zeros, 1, -1, the largest
ProbeFloat == {NaN, Inf(0), Fin(0, 0), Fin(1, 0), One, Neg(One), Fin(0, MaxMag)}

\* requests that may come between two occurrences of the probe: a success,
\* a division by zero, a non-finite operand, an operator outside the set
Between ==
    { Request(GetCalc, "add", One, One),
      Request(Shortcut("div"), "none", One, Fin(0, 0)),
      Request(GetCalc, "mul", NaN, One),
      Request(PostCalc, "mod", One, Inf(1)) }

InitHist ==
    /\ phase = "idle"
    /\ req = NoRequest
    /\ resp = NoResponse
    /\ call = <<>>
    /\ arith = <<>>
    /\ prevStatus = 0
    /\ probe \in RequestsOver(ProbeFloat)
    /\ probeResp = NoResponse

NextHist ==
    \/ Receive({probe} \cup Between)
    \/ Handlers
    \/ Respond

SpecHist == InitHist /\ [][NextHist]_vars

\* ================================================================= claims
Done == phase = "done"

\* the operator a request asks for: the op parameter, or the shortcut's name
OpOf(r) ==
    IF r.route \in {GetCalc, PostCalc} THEN r.op
    ELSE CHOOSE op \in Op : r.route = Shortcut(op)

FiniteOperands(r) == isfinite(r.a) /\ isfinite(r.b)

ZeroDivisor(r) == OpOf(r) = "div" /\ isfinite(r.a) /\ IsZero(r.b)

Abs(x) == IF x < 0 THEN 0 - x ELSE x

\* the exact rational value of  a op b  as numerator over a positive
\* denominator, in quanta (b is not zero for div)
ExactNum(op, a, b) ==
    IF op = "add" THEN Signed(a) + Signed(b)
    ELSE IF op = "sub" THEN Signed(a) - Signed(b)
    ELSE IF op = "mul" THEN Signed(a) * Signed(b)
    ELSE IF b.s = 1 THEN 0 - Signed(a) * Unit ELSE Signed(a) * Unit

ExactDen(op, a, b) ==
    IF op \in {"add", "sub"} THEN 1 ELSE IF op = "mul" THEN Unit ELSE b.m

\* r is the float value of the rational n/d: no float is nearer to n/d than
\* r, and r is an infinity only past the overflow threshold
IsValueOf(r, n, d) ==
    \/ /\ r.k = "fin"
       /\ \A x \in Rep \cup {Top} :
            /\ Abs(Signed(r) * d - n) <= Abs(x * d - n)
            /\ Abs(Signed(r) * d - n) <= Abs((0 - x) * d - n)
    \/ r.k = "inf" /\ r.s = 0 /\ 2 * n >= (MaxMag + Top) * d
    \/ r.k = "inf" /\ r.s = 1 /\ 0 - 2 * n >= (MaxMag + Top) * d

\* C1: finite operands, an operator of the set and, for div, a divisor that
\* is not zero: the request succeeds, its result is the float value of the
\* exact a+b, a-b, a*b or a/b, and the arithmetic executed is that of the
\* operator asked for, on the operands given.
C1_ResultIsArithmetic ==
    (Done /\ FiniteOperands(req) /\ OpOf(req) \in Op /\ ~ZeroDivisor(req))
    => /\ resp.status = 200
       /\ arith = <<OpOf(req), req.a, req.b>>
       /\ IsValueOf(resp.body[4], ExactNum(OpOf(req), req.a, req.b),
                    ExactDen(OpOf(req), req.a, req.b))

\* a division whose quotient had to be rounded
C1_Witness ==
    /\ Done
    /\ resp.status = 200
    /\ OpOf(req) = "div"
    /\ resp.body[4].k = "fin"
    /\ resp.body[4].m * req.b.m # req.a.m * Unit

\* C2: div with a finite a and a zero b fails with the division-by-zero
\* error of status 400 and no result, and no division is ever executed with
\* a zero divisor.
C2_DivByZeroRejected ==
    /\ (Done /\ ZeroDivisor(req))
       => /\ resp.status = 400
          /\ resp.errors = {MsgDivZero}
          /\ resp.body = <<>>
          /\ arith = <<>>
    /\ (Done /\ arith # <<>> /\ arith[1] = "div") => ~IsZero(arith[3])

\* a division by negative zero refused on the shortcut route
C2_Witness ==
    /\ Done
    /\ req.route = Shortcut("div")
    /\ req.b = Fin(1, 0)
    /\ resp.errors = {MsgDivZero}

\* C3 as stated: a non-finite operand makes the request fail with the
\* invalid-operand error whatever the operator string is, never with the
\* division-by-zero error, and no arithmetic is executed.
C3_AsStated ==
    (Done /\ ~FiniteOperands(req))
    => /\ resp.status # 200
       /\ MsgFinite \in resp.errors
       /\ MsgDivZero \notin resp.errors
       /\ arith = <<>>

\* C3 as amended: a non-finite operand makes the request fail without
\* compute being called; with an operator of the set the error is the
\* invalid-operand error alone (also for div with b = 0), and with an
\* operator outside the set the operator's error is reported.
C3_NonFiniteRejected ==
    (Done /\ ~FiniteOperands(req))
    => /\ resp.status # 200
       /\ resp.body = <<>>
       /\ call = <<>>
       /\ arith = <<>>
       /\ MsgDivZero \notin resp.errors
       /\ OpOf(req) \in Op => resp.errors = {MsgFinite}
       /\ OpOf(req) \notin Op => MsgEnum \in resp.errors

\* NaN / 0 on GET /calc is an invalid operand, not a division by zero
C3_Witness ==
    /\ Done
    /\ req.route = GetCalc
    /\ req.op = "div"
    /\ req.a = NaN
    /\ IsZero(req.b)
    /\ resp.errors = {MsgFinite}

\* C4: an operator string outside the set makes the request fail with an
\* unsupported-operator error, and no arithmetic is executed for it.
C4_UnknownOperatorRejected ==
    (Done /\ OpOf(req) \notin Op)
    => /\ resp.status # 200
       /\ resp.errors \cap {MsgEnum, MsgUnsupported} # {}
       /\ resp.body = <<>>
       /\ arith = <<>>

\* "mod" with finite operands, refused
C4_Witness ==
    /\ Done
    /\ req.op = "mod"
    /\ FiniteOperands(req)
    /\ resp.status # 200

\* C5: in a successful response the operator field is the operator whose
\* arithmetic compute executed, and a and b are the operands compute was
\* called with.
C5_ResponseEchoesCall ==
    (Done /\ resp.status = 200)
    => /\ call # <<>>
       /\ arith # <<>>
       /\ resp.body[3] = arith[1]
       /\ resp.body[3] = call[3]
       /\ resp.body[1] = call[1] /\ resp.body[1] = arith[2]
       /\ resp.body[2] = call[2] /\ resp.body[2] = arith[3]

\* a success on the /sub shortcut
C5_Witness ==
    /\ Done
    /\ req.route = Shortcut("sub")
    /\ resp.status = 200
    /\ resp.body[4] # req.a

C7_Commutative ==
    (Done /\ FiniteOperands(req) /\ OpOf(req) \in {"add", "mul"})
    => LET swapped == Handle([req EXCEPT !.a = req.b, !.b = req.a]).resp
       IN  /\ resp.status = 200
           /\ swapped.status = 200
           /\ swapped.body[4] = resp.body[4]

\* a product of two different operands that is none of them
C7_Witness ==
    /\ Done
    /\ OpOf(req) = "mul"
    /\ resp.status = 200
    /\ req.a.m # req.b.m
    /\ resp.body[4] \notin {req.a, req.b}

\* C8: every failure has a client status (4xx), and its errors tell the
\* cause: the division-by-zero error is given exactly for a zero divisor of
\* a finite dividend and then alone, the invalid-operand error only for a
\* non-finite operand, an unsupported-operator error exactly for an operator
\* outside the set.
C8_FailuresDistinct ==
    (Done /\ resp.status # 200)
    => /\ resp.status \in 400..499
       /\ resp.errors # {}
       /\ MsgDivZero \in resp.errors <=> ZeroDivisor(req)
       /\ ZeroDivisor(req) => resp.errors = {MsgDivZero}
       /\ MsgFinite \in resp.errors => ~FiniteOperands(req)
       /\ (resp.errors \cap {MsgEnum, MsgUnsupported} # {}) <=> OpOf(req) \notin Op

\* a division by zero refused on POST /calc/{op}
C8_Witness ==
    /\ Done
    /\ req.route = PostCalc
    /\ resp.status = 400
    /\ resp.errors = {MsgDivZero}

\* C9: whenever compute is called its operands are finite and its operator
\* is one of the four, and no response carries the message of compute's
\* final branch.
C9_ComputePrecondition ==
    /\ (Done /\ call # <<>>)
       => /\ isfinite(call[1])
          /\ isfinite(call[2])
          /\ call[3] \in Op
    /\ Done => MsgUnsupported \notin resp.errors

\* compute called from calc_query
C9_Witness ==
    /\ Done
    /\ req.route = GetCalc
    /\ call = <<req.a, req.b, req.op>>

\* the same operands and operator sent to another route
OnRoute(r, route) ==
    Request(route, IF route \in {GetCalc, PostCalc} THEN OpOf(r) ELSE "none",
            r.a, r.b)

\* C10: for an operator of the set, GET /calc, POST /calc/{op} and the
\* operator's shortcut give the same success payload or the same errors.
C10_RoutesAgree ==
    (Done /\ OpOf(req) \in Op)
    => \A route \in {GetCalc, PostCalc, Shortcut(OpOf(req))} :
         LET other == Handle(OnRoute(req, route)).resp
         IN  /\ other.body = resp.body
             /\ other.errors = resp.errors

\* an infinite operand refused by the validator on a shortcut
C10_Witness ==
    /\ Done
    /\ req.route = Shortcut("mul")
    /\ req.a = Inf(1)
    /\ resp.errors = {MsgFinite}

=============================================================================
